---- MODULE Spec2Model ----
(***************************************************************************)
(* State-machine model of the SCEPTRE front end: the App component's auth  *)
(* custody (localStorage key 'auth'), the AuthForm login flow, the         *)
(* Dashboard logout, the VerificationInterface submit handlers and the     *)
(* KnowledgeBase refresh handler.                                          *)
(***************************************************************************)
EXTENDS Integers, Sequences, FiniteSets, TLC

\* ------------------------------------------------------------------ bounds

\* Requests (verify or refresh) unresolved at one time.
MaxInFlight == 2

\* Entries of refreshResults.
MaxRefreshResults == 2

\* ------------------------------------------------------- JavaScript values

\* Every JavaScript value has the same shape: a type tag t, the text s of a
\* string or number, and the ordered own properties f of an object.
Undefined == [t |-> "undefined", s |-> "", f |-> <<>>]
Null == [t |-> "null", s |-> "", f |-> <<>>]
Str(x) == [t |-> "string", s |-> x, f |-> <<>>]
Num(x) == [t |-> "number", s |-> x, f |-> <<>>]
Obj(fields) == [t |-> "object", s |-> "", f |-> fields]
Field(key, val) == [k |-> key, v |-> val]

\* ToBoolean, as used by `if (x)` and `a && b`.
Truthy(v) ==
    CASE v.t = "undefined" -> FALSE
      [] v.t = "null" -> FALSE
      [] v.t = "string" -> v.s # ""
      [] v.t = "number" -> v.s # "0"
      [] OTHER -> TRUE

\* Property read v[key] on a non-nullish value: the last own property of that
\* name, undefined when there is none (primitives have no such property).
RECURSIVE GetField(_, _)
GetField(fields, key) ==
    IF fields = <<>> THEN Undefined
    ELSE LET last == fields[Len(fields)]
         IN IF last.k = key THEN last.v
            ELSE GetField(SubSeq(fields, 1, Len(fields) - 1), key)

GetProp(v, key) == IF v.t = "object" THEN GetField(v.f, key) ELSE Undefined

\* ToString of ECMAScript, as a template literal `${v}` applies it.
ToStringJS(v) ==
    CASE v.t = "undefined" -> "undefined"
      [] v.t = "null" -> "null"
      [] v.t = "object" -> "[object Object]"
      [] OTHER -> v.s

\* ------------------------------------------------------------- JSON text

\* A text is a sequence of lexical tokens; the empty sequence is the empty
\* string.
Tok(kind, text) == [k |-> kind, s |-> text]
LB == Tok("{", "")
RB == Tok("}", "")
COLON == Tok(":", "")
COMMA == Tok(",", "")
NUL == Tok("null", "")
S(x) == Tok("str", x)
N(x) == Tok("num", x)
JUNK == Tok("junk", "")

\* JSON.stringify of a value that is not undefined: a property whose value is
\* undefined is left out.
RECURSIVE JSONstringifyMembers(_, _)
JSONstringifyMembers(fields, first) ==
    IF fields = <<>> THEN <<>>
    ELSE LET h == Head(fields)
             inner == IF h.v.t = "object"
                      THEN <<LB>> \o JSONstringifyMembers(h.v.f, TRUE) \o <<RB>>
                      ELSE IF h.v.t = "null" THEN <<NUL>>
                      ELSE IF h.v.t = "number" THEN <<N(h.v.s)>>
                      ELSE <<S(h.v.s)>>
         IN IF h.v.t = "undefined"
            THEN JSONstringifyMembers(Tail(fields), first)
            ELSE (IF first THEN <<>> ELSE <<COMMA>>)
                 \o <<S(h.k), COLON>> \o inner
                 \o JSONstringifyMembers(Tail(fields), FALSE)

JSONstringify(v) ==
    CASE v.t = "object" -> <<LB>> \o JSONstringifyMembers(v.f, TRUE) \o <<RB>>
      [] v.t = "null" -> <<NUL>>
      [] v.t = "number" -> <<N(v.s)>>
      [] OTHER -> <<S(v.s)>>

\* JSON.parse by recursive descent. A result is [ok, v, rest]; ok = FALSE is
\* the SyntaxError.
ParseFail == [ok |-> FALSE, v |-> Undefined, rest |-> <<>>]
ParseOk(val, more) == [ok |-> TRUE, v |-> val, rest |-> more]

\* Define own property key := val, replacing an earlier one of that name.
SetField(fields, key, val) ==
    IF \E i \in 1..Len(fields) : fields[i].k = key
    THEN [i \in 1..Len(fields) |->
             IF fields[i].k = key THEN Field(key, val) ELSE fields[i]]
    ELSE Append(fields, Field(key, val))

RECURSIVE ParseValue(_), ParseMembers(_, _)
ParseValue(ts) ==
    IF ts = <<>> THEN ParseFail
    ELSE LET h == Head(ts)
         IN CASE h.k = "null" -> ParseOk(Null, Tail(ts))
              [] h.k = "str" -> ParseOk(Str(h.s), Tail(ts))
              [] h.k = "num" -> ParseOk(Num(h.s), Tail(ts))
              [] h.k = "{" ->
                   IF Len(ts) >= 2 /\ ts[2].k = "}"
                   THEN ParseOk(Obj(<<>>), SubSeq(ts, 3, Len(ts)))
                   ELSE ParseMembers(Tail(ts), <<>>)
              [] OTHER -> ParseFail

\* ts starts at a member `"key" : value`, acc holds the members read so far.
ParseMembers(ts, acc) ==
    IF Len(ts) < 3 \/ ts[1].k # "str" \/ ts[2].k # ":" THEN ParseFail
    ELSE LET r == ParseValue(SubSeq(ts, 3, Len(ts)))
         IN IF ~r.ok \/ r.rest = <<>> THEN ParseFail
            ELSE LET acc2 == SetField(acc, ts[1].s, r.v)
                     sep == Head(r.rest)
                 IN CASE sep.k = "}" -> ParseOk(Obj(acc2), Tail(r.rest))
                      [] sep.k = "," -> ParseMembers(Tail(r.rest), acc2)
                      [] OTHER -> ParseFail

JSONparse(text) ==
    LET r == ParseValue(text)
    IN IF r.ok /\ r.rest = <<>> THEN r ELSE ParseFail

\* --------------------------------------------------------- durable storage

\* localStorage maps a key to an item: absent (getItem gives null) or a text.
Keys == {"auth", "sceptre_token", "sceptre_user"}
NoItem == [present |-> FALSE, text |-> <<>>]
Item(txt) == [present |-> TRUE, text |-> txt]

\* A call that mutates localStorage: by the component `by`, `op` on `key`.
StorageOp(comp, operation, key) == [by |-> comp, op |-> operation, key |-> key]

\* ------------------------------------------------------------------ inputs

\* Values Math.random().toString(36).substr(2, 9) may yield.
SessionIds == {"k3j9x2a1b", "q8w7e6r5t"}
NoSession == ""

UserA == <<LB, S("email"), COLON, S("a@b.com"), RB>>
UserZ == <<LB, S("email"), COLON, S("z@y.com"), COMMA,
           S("full_name"), COLON, S("Zed"), RB>>

\* Bodies of a 2xx answer of POST /api/login.
LoginFull == <<LB, S("access_token"), COLON, S("abc123"), COMMA,
               S("user"), COLON>> \o UserA \o <<RB>>
LoginNoToken == <<LB, S("user"), COLON>> \o UserA \o <<RB>>
LoginNoUser == <<LB, S("access_token"), COLON, S("abc123"), RB>>
LoginEmptyToken == <<LB, S("access_token"), COLON, S(""), COMMA,
                     S("user"), COLON>> \o UserA \o <<RB>>
LoginNull == <<NUL>>
LoginJunk == <<JUNK>>
LoginBodies ==
    {LoginFull, LoginNoToken, LoginNoUser, LoginEmptyToken, LoginNull, LoginJunk}

\* Login answers of the second client: another account, and one without user.
LoginOther == <<LB, S("access_token"), COLON, S("xyz789"), COMMA,
                S("user"), COLON>> \o UserZ \o <<RB>>
PeerLoginBodies == {LoginOther, LoginNoUser, LoginJunk}

\* What the 'auth' key may hold when the page is loaded: nothing, a record
\* left by an earlier run, or a value that is not such a record.
StoredValid == <<LB, S("token"), COLON, S("tok0"), COMMA,
                 S("user"), COLON>> \o UserZ \o <<RB>>
StoredNoUser == <<LB, S("token"), COLON, S("tok0"), RB>>
StoredNullUser == <<LB, S("token"), COLON, S("tok0"), COMMA,
                    S("user"), COLON, NUL, RB>>
StoredTruncated == <<LB, S("token"), COLON>>
StoredJunk == <<JUNK>>
StoredNull == <<NUL>>
StoredEmptyString == <<>>
InitialRecords ==
    {NoItem, Item(StoredValid), Item(StoredNoUser), Item(StoredNullUser),
     Item(StoredTruncated), Item(StoredJunk), Item(StoredNull),
     Item(StoredEmptyString)}

\* Bodies of a 2xx answer of POST /verify.
VerifyHigh == <<LB, S("credibility_assessment"), COLON, S("HIGH_RISK"), COMMA,
                S("classification_score"), COLON, N("0.91"), RB>>
VerifyLow == <<LB, S("credibility_assessment"), COLON, S("LOW_RISK"), COMMA,
               S("classification_score"), COLON, N("0.12"), COMMA,
               S("summary"), COLON, S("consistent with the sources"), RB>>
VerifyJunk == <<JUNK>>
VerifyBodies == {VerifyHigh, VerifyLow, VerifyJunk}

\* Answers of /verify over the labels of credibility_assessment: the five the
\* service documents and strings that are none of them.
AssessmentLabels ==
    {"HIGH_RISK", "MODERATE_RISK", "LOW_RISK", "UNVERIFIABLE",
     "LIMITED_VERIFICATION", "UNKNOWN", "high_risk", "HIGH RISK", ""}
VerifyLabelled(label) ==
    <<LB, S("credibility_assessment"), COLON, S(label), COMMA,
      S("classification_score"), COLON, N("0.5"), RB>>
AssessmentBodies == {VerifyLabelled(label) : label \in AssessmentLabels}

\* Answers of /verify over classification_score: the ends of [0,1] and a
\* number on either side of it.
Scores == {"0", "1", "1.7", "-0.2"}
VerifyScored(score) ==
    <<LB, S("credibility_assessment"), COLON, S("LOW_RISK"), COMMA,
      S("classification_score"), COLON, N(score), RB>>
ScoreBodies == {VerifyScored(score) : score \in Scores}

\* classification_score * 100 as the result card computes it, for the number
\* texts of the answers above.
TimesHundred(text) ==
    CASE text = "0" -> 0
      [] text = "0.12" -> 12
      [] text = "0.5" -> 50
      [] text = "0.91" -> 91
      [] text = "1" -> 100
      [] text = "1.7" -> 170
      [] text = "-0.2" -> -20

\* Bodies of a 2xx answer of POST /refresh-knowledge-base.
RefreshDone == <<LB, S("message"), COLON, S("ok"), COMMA,
                 S("topic"), COLON, S("climate"), COMMA,
                 S("document_count"), COLON, N("3"), RB>>
RefreshMore == <<LB, S("message"), COLON, S("ok"), COMMA,
                 S("topic"), COLON, S("health"), COMMA,
                 S("document_count"), COLON, N("5"), RB>>
RefreshJunk == <<JUNK>>
RefreshBodies == {RefreshDone, RefreshMore, RefreshJunk}

\* --------------------------------------------------------------- risk band

\* getRiskColor with LIMITED_VERIFICATION left to the default.
getRiskColorWithoutLimited(assessment) ==
    CASE assessment = Str("HIGH_RISK") -> "risk-high"
      [] assessment = Str("MODERATE_RISK") -> "risk-moderate"
      [] assessment = Str("LOW_RISK") -> "risk-low"
      [] assessment = Str("UNVERIFIABLE") -> "risk-unverifiable"
      [] OTHER -> "muted"

\* The switch of getRiskColor; a case matches by ===.
getRiskColor(assessment) ==
    CASE assessment = Str("HIGH_RISK") -> "risk-high"
      [] assessment = Str("MODERATE_RISK") -> "risk-moderate"
      [] assessment = Str("LOW_RISK") -> "risk-low"
      [] assessment = Str("UNVERIFIABLE") -> "risk-unverifiable"
      [] assessment = Str("LIMITED_VERIFICATION") -> "risk-unverifiable"
      [] OTHER -> "muted"

\* The switch of getRiskIcon.
getRiskIcon(assessment) ==
    CASE assessment = Str("HIGH_RISK") -> "XCircle"
      [] assessment = Str("MODERATE_RISK") -> "AlertTriangle"
      [] assessment = Str("LOW_RISK") -> "CheckCircle"
      [] OTHER -> "Clock"

\* The header of the result card: nothing while `result &&` is falsy, else the
\* icon and the badge colour of result.credibility_assessment.
NoBand == [assessment |-> Undefined, color |-> "", icon |-> ""]
RenderedBand(res) ==
    IF ~Truthy(res) THEN NoBand
    ELSE LET assessment == GetProp(res, "credibility_assessment")
         IN [assessment |-> assessment, color |-> getRiskColor(assessment),
             icon |-> getRiskIcon(assessment)]

\* ------------------------------------------------------------------ toasts

Toast(title, description, variant) ==
    [title |-> title, description |-> description, variant |-> variant]
NoToast == Toast("", "", "")

LoginSuccessfulToast == Toast("Login successful", "Welcome to SCEPTRE", "default")
LoginFailedToast ==
    Toast("Login failed", "Please check your credentials and try again.",
          "destructive")
LoggedOutToast ==
    Toast("Logged out", "You have been successfully logged out.", "default")

\* The toast after `setResult(data)` in the handler of the modality.
VerificationCompleteToast(modality) ==
    Toast("Verification complete",
          CASE modality = "text" -> "Content analysis has been completed."
            [] modality = "file" -> "File analysis has been completed."
            [] modality = "url" -> "URL analysis has been completed.",
          "default")

\* The toast of the catch block in the handler of the modality.
VerificationFailedToast(modality) ==
    Toast("Verification failed",
          CASE modality = "text" -> "Please try again later."
            [] modality = "file" -> "Please try again with a different file."
            [] modality = "url" -> "Please try again with a valid URL.",
          "destructive")

\* The description names the document count and the topic of the answer; the
\* model keeps its fixed part.
KnowledgeBaseUpdatedToast ==
    Toast("Knowledge base updated", "Added documents.", "default")
UpdateFailedToast ==
    Toast("Update failed", "Failed to update knowledge base. Please try again.",
          "destructive")

\* No response body was read.
NoBody == <<>>

\* ------------------------------------------------------------------- state

VARIABLES
    durable,          \* localStorage: Keys -> item
    storageOps,       \* the localStorage mutations the latest step called
    isAuthenticated,  \* App state
    user,             \* App state
    token,            \* App state
    appIsLoading,     \* App state isLoading
    authIsLoading,    \* AuthForm state isLoading
    loginPending,     \* a POST /api/login is unresolved
    viIsLoading,      \* VerificationInterface state isLoading
    viDisabled,       \* the disabled attribute its submit buttons show
    band,             \* the risk band its result card shows
    result,           \* VerificationInterface state result
    sessionId,        \* VerificationInterface state sessionId
    kbIsLoading,      \* KnowledgeBase state isLoading
    kbSessionId,      \* KnowledgeBase state sessionId
    refreshResults,   \* KnowledgeBase state refreshResults
    inflight,         \* the unresolved /verify and refresh requests, in send order
    lastOp,           \* the handler that ran last
    toast,            \* the toast the latest step raised
    lastBody,         \* the body a mounted view read in the latest step
    peer              \* App state of a second client on the same localStorage

appVars == <<isAuthenticated, user, token, appIsLoading>>
authVars == <<authIsLoading, loginPending>>
viVars == <<viIsLoading, viDisabled, band, result, sessionId>>
kbVars == <<kbIsLoading, kbSessionId, refreshResults>>
netVars == <<inflight>>
stepVars == <<lastOp, toast, lastBody>>
vars == <<durable, storageOps, appVars, authVars, viVars, kbVars, netVars,
          stepVars, peer>>

\* The Authorization header `Bearer ${token}`.
Bearer(authToken) == [scheme |-> "Bearer", credentials |-> ToStringJS(authToken)]
NoAuthorization == [scheme |-> "", credentials |-> ""]

\* The route element: Dashboard when authenticated, Landing otherwise; a
\* spinner and nothing else while App's isLoading holds.
DashboardMounted == ~appIsLoading /\ isAuthenticated
LandingMounted == ~appIsLoading /\ ~isAuthenticated

\* A second client (another tab of the same origin): its App state.
Client(authenticated, userData, authToken, loading) ==
    [isAuthenticated |-> authenticated, user |-> userData, token |-> authToken,
     isLoading |-> loading]

\* The second client as constructed, before its useEffect has run.
PeerLoading == Client(FALSE, Null, Str(""), TRUE)

\* ------------------------------------------------------- App: auth custody

AuthKey == "auth"

\* The same with `savedToken || savedUser` for the test of the two fields.
BootstrapEffectEither(savedAuth) ==
    LET absent == [token |-> Str(""), user |-> Null,
                   isAuthenticated |-> FALSE, purge |-> FALSE]
        parsed == JSONparse(savedAuth.text)
        savedToken == GetProp(parsed.v, "token")
        savedUser == GetProp(parsed.v, "user")
    IN IF ~savedAuth.present \/ savedAuth.text = <<>> THEN absent
       ELSE IF ~parsed.ok \/ parsed.v.t \in {"null", "undefined"}
            THEN [absent EXCEPT !.purge = TRUE]
       ELSE IF Truthy(savedToken) \/ Truthy(savedUser)
            THEN [token |-> savedToken, user |-> savedUser,
                  isAuthenticated |-> TRUE, purge |-> FALSE]
       ELSE absent

\* The body of App's useEffect up to its finally: what the try block leaves in
\* token, user and isAuthenticated, and whether the catch block ran (purge).
BootstrapEffect(savedAuth) ==
    LET absent == [token |-> Str(""), user |-> Null,
                   isAuthenticated |-> FALSE, purge |-> FALSE]
        parsed == JSONparse(savedAuth.text)
        savedToken == GetProp(parsed.v, "token")
        savedUser == GetProp(parsed.v, "user")
    IN IF ~savedAuth.present \/ savedAuth.text = <<>> THEN absent
       ELSE IF ~parsed.ok \/ parsed.v.t \in {"null", "undefined"}
            THEN [absent EXCEPT !.purge = TRUE]
       ELSE IF Truthy(savedToken) /\ Truthy(savedUser)
            THEN [token |-> savedToken, user |-> savedUser,
                  isAuthenticated |-> TRUE, purge |-> FALSE]
       ELSE absent

\* The record stored under the field name of the login answer.
SavedRecordAccessToken(authToken, userData) ==
    JSONstringify(Obj(<<Field("access_token", authToken), Field("user", userData)>>))

\* The text handleAuthSuccess stores.
SavedRecord(authToken, userData) ==
    JSONstringify(Obj(<<Field("token", authToken), Field("user", userData)>>))

\* The route element after a change of isAuthenticated: Dashboard with its
\* VerificationInterface mounted afresh, its useState initializer drawing a
\* sessionId, or unmounted. Any KnowledgeBase view goes with the old tree.
MountViews(authenticated) ==
    IF authenticated
    THEN \E sid \in SessionIds :
            /\ viIsLoading' = FALSE
            /\ viDisabled' = FALSE
            /\ band' = NoBand
            /\ result' = Null
            /\ sessionId' = sid
            /\ kbIsLoading' = FALSE
            /\ kbSessionId' = NoSession
            /\ refreshResults' = <<>>
    ELSE /\ viIsLoading' = FALSE
         /\ viDisabled' = FALSE
         /\ band' = NoBand
         /\ result' = Null
         /\ sessionId' = NoSession
         /\ kbIsLoading' = FALSE
         /\ kbSessionId' = NoSession
         /\ refreshResults' = <<>>

RunBootstrap ==
    LET e == BootstrapEffect(durable[AuthKey])
    IN /\ token' = e.token
       /\ user' = e.user
       /\ isAuthenticated' = e.isAuthenticated
       /\ durable' = IF e.purge THEN [durable EXCEPT ![AuthKey] = NoItem]
                      ELSE durable
       /\ storageOps' = IF e.purge
                         THEN {StorageOp("App", "removeItem", AuthKey)}
                         ELSE {}
       /\ appIsLoading' = FALSE
       /\ MountViews(e.isAuthenticated)

\* App's useEffect, run once after the first render.
Bootstrap ==
    /\ appIsLoading
    /\ RunBootstrap
    /\ UNCHANGED <<authVars, netVars>>
    /\ lastOp' = "bootstrap"
    /\ toast' = NoToast
    /\ lastBody' = NoBody
    /\ UNCHANGED peer

\* The page is loaded again: every component state is constructed anew, the
\* requests of the old page are gone, and App's useEffect runs.
Reload ==
    /\ ~appIsLoading
    /\ RunBootstrap
    /\ authIsLoading' = FALSE
    /\ loginPending' = FALSE
    /\ inflight' = <<>>
    /\ lastOp' = "reload"
    /\ toast' = NoToast
    /\ lastBody' = NoBody
    /\ UNCHANGED peer

\* ------------------------------------------------------------ AuthForm

\* handleLogin up to its await.
LoginSubmit ==
    /\ LandingMounted
    /\ ~authIsLoading
    /\ authIsLoading' = TRUE
    /\ loginPending' = TRUE
    /\ storageOps' = {}
    /\ lastOp' = "handleLogin"
    /\ toast' = NoToast
    /\ lastBody' = NoBody
    /\ UNCHANGED peer
    /\ UNCHANGED <<durable, appVars, viVars, kbVars, netVars>>

\* handleLogin's catch and finally: fetch rejected, the status is not 2xx, or
\* the body is no JSON object.
LoginCaught ==
    /\ authIsLoading' = FALSE
    /\ loginPending' = FALSE
    /\ storageOps' = {}
    /\ lastOp' = "loginFailed"
    /\ toast' = LoginFailedToast
    /\ lastBody' = NoBody
    /\ UNCHANGED peer
    /\ UNCHANGED <<durable, appVars, viVars, kbVars, netVars>>

LoginFailed ==
    /\ loginPending
    /\ LoginCaught

\* handleAuthSuccess with the three state updates ahead of setItem: a throw
\* of setItem finds them made.
handleAuthSuccessStateFirst(authToken, userData, setItemThrows) ==
    /\ IF setItemThrows
       THEN /\ storageOps' = {}
            /\ UNCHANGED durable
       ELSE /\ durable' = [durable EXCEPT
                              ![AuthKey] = Item(SavedRecord(authToken, userData))]
            /\ storageOps' = {StorageOp("App", "setItem", AuthKey)}
    /\ token' = authToken
    /\ user' = userData
    /\ isAuthenticated' = TRUE
    /\ UNCHANGED appIsLoading
    /\ MountViews(TRUE)

\* App.handleAuthSuccess; setItemThrows: localStorage.setItem raised
\* (QuotaExceededError), which the catch swallows.
handleAuthSuccess(authToken, userData, setItemThrows) ==
    IF setItemThrows
    THEN /\ storageOps' = {}
         /\ UNCHANGED <<durable, appVars, viVars, kbVars>>
    ELSE /\ durable' = [durable EXCEPT
                           ![AuthKey] = Item(SavedRecord(authToken, userData))]
         /\ storageOps' = {StorageOp("App", "setItem", AuthKey)}
         /\ token' = authToken
         /\ user' = userData
         /\ isAuthenticated' = TRUE
         /\ UNCHANGED appIsLoading
         /\ MountViews(TRUE)

\* handleLogin after a 2xx answer with the given body.
LoginAnswered(body, setItemThrows) ==
    /\ loginPending
    /\ LET data == JSONparse(body)
       IN IF ~data.ok \/ data.v.t \in {"null", "undefined"}
          THEN LoginCaught
          ELSE /\ handleAuthSuccess(GetProp(data.v, "access_token"),
                                    GetProp(data.v, "user"), setItemThrows)
               /\ authIsLoading' = FALSE
               /\ loginPending' = FALSE
               /\ lastOp' = "handleAuthSuccess"
               /\ toast' = LoginSuccessfulToast
               /\ lastBody' = NoBody
               /\ UNCHANGED peer
               /\ UNCHANGED netVars

\* ------------------------------------------------------------ Dashboard

\* The requests of components that are unmounted: their fetch goes on, their
\* state updates will be dropped. The header such a request carried is with
\* the server and is read by no later step of the client; the sequence keeps
\* the request without it.
Orphan(requests) ==
    [i \in 1..Len(requests) |->
        [requests[i] EXCEPT !.live = FALSE, !.authorization = NoAuthorization]]

\* Only the two keys Dashboard names are removed.
LogoutStorageDashboardKeys(d) ==
    [d EXCEPT !["sceptre_token"] = NoItem, !["sceptre_user"] = NoItem]

\* localStorage after Dashboard.handleLogout and the App.handleLogout it calls.
LogoutStorage(d) ==
    [d EXCEPT !["sceptre_token"] = NoItem,
              !["sceptre_user"] = NoItem,
              ![AuthKey] = NoItem]

\* The localStorage calls of Dashboard.handleLogout and App.handleLogout.
LogoutOps ==
    {StorageOp("Dashboard", "removeItem", "sceptre_token"),
     StorageOp("Dashboard", "removeItem", "sceptre_user"),
     StorageOp("App", "removeItem", AuthKey)}

\* Dashboard.handleLogout, which calls App.handleLogout through onLogout.
handleLogout ==
    /\ DashboardMounted
    /\ durable' = LogoutStorage(durable)
    /\ storageOps' = LogoutOps
    /\ token' = Str("")
    /\ user' = Null
    /\ isAuthenticated' = FALSE
    /\ UNCHANGED appIsLoading
    /\ MountViews(FALSE)
    /\ authIsLoading' = FALSE
    /\ loginPending' = FALSE
    /\ inflight' = Orphan(inflight)
    /\ lastOp' = "handleLogout"
    /\ toast' = LoggedOutToast
    /\ lastBody' = NoBody
    /\ UNCHANGED peer

\* ------------------------------------------------- VerificationInterface

\* A request whose body leaves out session_id.
RequestWithoutSession(kind, modality, contentType, sid, authToken) ==
    [kind |-> kind, modality |-> modality, contentType |-> contentType,
     session_id |-> NoSession, authorization |-> Bearer(authToken), live |-> TRUE]

\* The request a handler hands to fetch.
Request(kind, modality, contentType, sid, authToken) ==
    [kind |-> kind, modality |-> modality, contentType |-> contentType,
     session_id |-> sid, authorization |-> Bearer(authToken), live |-> TRUE]

\* The Content-Type header each handler sets by hand ("" when it sets none).
ContentTypeOf(modality) ==
    IF modality = "file" THEN "" ELSE "application/x-www-form-urlencoded"

\* The buttons without the disabled attribute.
RenderedDisabledNever(isLoading) == FALSE

\* disabled={isLoading} on the three submit buttons.
RenderedDisabled(isLoading) == isLoading

\* A submit button that takes the click whatever it shows.
SubmitEnabledAlways(disabled) == TRUE

\* A submit button lets a submit event through only while it is not disabled.
SubmitEnabled(disabled) == ~disabled

\* handleTextVerification, handleFileVerification and handleUrlVerification
\* up to their await: setIsLoading(true), then fetch. The state update of an
\* event handler is rendered before the next event is handled.
handleVerification(modality) ==
    /\ Len(inflight) < MaxInFlight
    /\ viIsLoading' = TRUE
    /\ viDisabled' = RenderedDisabled(TRUE)
    /\ band' = RenderedBand(result)
    /\ inflight' = Append(inflight, Request("verify", modality,
                                            ContentTypeOf(modality), sessionId, token))
    /\ storageOps' = {}
    /\ lastOp' = "handleVerification"
    /\ toast' = NoToast
    /\ lastBody' = NoBody
    /\ UNCHANGED peer
    /\ UNCHANGED <<durable, appVars, authVars, result, sessionId, kbVars>>

handleTextVerification == handleVerification("text")
handleFileVerification == handleVerification("file")
handleUrlVerification == handleVerification("url")

\* A submit event raised by a submit button of the mounted view.
SubmitText ==
    /\ DashboardMounted
    /\ SubmitEnabled(viDisabled)
    /\ handleTextVerification

SubmitFile ==
    /\ DashboardMounted
    /\ SubmitEnabled(viDisabled)
    /\ handleFileVerification

SubmitUrl ==
    /\ DashboardMounted
    /\ SubmitEnabled(viDisabled)
    /\ handleUrlVerification

\* A handler called with no regard to the buttons (form.requestSubmit(), a
\* test, another caller).
InvokeHandler ==
    /\ DashboardMounted
    /\ \/ handleTextVerification
       \/ handleFileVerification
       \/ handleUrlVerification

\* The request at position i is resolved.
Resolve(i) ==
    inflight' = SubSeq(inflight, 1, i - 1) \o SubSeq(inflight, i + 1, Len(inflight))

Pending == 1..Len(inflight)

\* A handler without its finally block: isLoading stays as the handler set it.
VerifyFailedKeepsLoading(i) ==
    /\ inflight[i].kind = "verify"
    /\ Resolve(i)
    /\ storageOps' = {}
    /\ lastOp' = "verifyFailed"
    /\ toast' = VerificationFailedToast(inflight[i].modality)
    /\ lastBody' = NoBody
    /\ UNCHANGED peer
    /\ UNCHANGED <<durable, appVars, authVars, viVars, kbVars>>

\* A catch block that also clears the held result.
VerifyFailedClears(i) ==
    /\ inflight[i].kind = "verify"
    /\ Resolve(i)
    /\ viIsLoading' = IF inflight[i].live THEN FALSE ELSE viIsLoading
    /\ result' = IF inflight[i].live THEN Null ELSE result
    /\ storageOps' = {}
    /\ lastOp' = "verifyFailed"
    /\ toast' = VerificationFailedToast(inflight[i].modality)
    /\ lastBody' = NoBody
    /\ UNCHANGED peer
    /\ UNCHANGED <<durable, appVars, authVars, viDisabled, band, sessionId, kbVars>>

\* A catch block that sends the request again.
VerifyFailedRetries(i) ==
    /\ inflight[i].kind = "verify"
    /\ inflight' = SubSeq(inflight, 1, i - 1)
                      \o SubSeq(inflight, i + 1, Len(inflight)) \o <<inflight[i]>>
    /\ storageOps' = {}
    /\ lastOp' = "verifyFailed"
    /\ toast' = VerificationFailedToast(inflight[i].modality)
    /\ lastBody' = NoBody
    /\ UNCHANGED peer
    /\ UNCHANGED <<durable, appVars, authVars, viVars, kbVars>>

\* The catch and finally blocks of a verification handler: fetch rejected or
\* the status is not 2xx. A state update of an unmounted component is dropped.
VerifyFailed(i) ==
    /\ inflight[i].kind = "verify"
    /\ Resolve(i)
    /\ viIsLoading' = IF inflight[i].live THEN FALSE ELSE viIsLoading
    /\ storageOps' = {}
    /\ lastOp' = "verifyFailed"
    /\ toast' = VerificationFailedToast(inflight[i].modality)
    /\ lastBody' = NoBody
    /\ UNCHANGED peer
    /\ UNCHANGED <<durable, appVars, authVars, viDisabled, band, result, sessionId, kbVars>>

\* setResult(prev => ({ ...prev, ...data })): the answer laid over the result
\* held before.
VerifyAnsweredMerges(i, body) ==
    /\ inflight[i].kind = "verify"
    /\ Resolve(i)
    /\ LET data == JSONparse(body)
       IN /\ result' = IF inflight[i].live /\ data.ok
                       THEN IF result.t = "object" /\ data.v.t = "object"
                            THEN Obj(result.f \o data.v.f) ELSE data.v
                       ELSE result
          /\ toast' = IF data.ok
                      THEN VerificationCompleteToast(inflight[i].modality)
                      ELSE VerificationFailedToast(inflight[i].modality)
          /\ lastOp' = IF data.ok THEN "verifyAnswered" ELSE "verifyParseFailed"
    /\ lastBody' = IF inflight[i].live THEN body ELSE NoBody
    /\ viIsLoading' = IF inflight[i].live THEN FALSE ELSE viIsLoading
    /\ storageOps' = {}
    /\ UNCHANGED peer
    /\ UNCHANGED <<durable, appVars, authVars, viDisabled, band, sessionId, kbVars>>

\* setResult reaching whatever VerificationInterface is there, as it would
\* with the result kept outside the component.
VerifyAnsweredInAnyView(i, body) ==
    /\ inflight[i].kind = "verify"
    /\ Resolve(i)
    /\ LET data == JSONparse(body)
       IN /\ result' = IF data.ok THEN data.v ELSE result
          /\ toast' = IF data.ok
                      THEN VerificationCompleteToast(inflight[i].modality)
                      ELSE VerificationFailedToast(inflight[i].modality)
          /\ lastOp' = IF data.ok THEN "verifyAnswered" ELSE "verifyParseFailed"
    /\ lastBody' = IF inflight[i].live THEN body ELSE NoBody
    /\ viIsLoading' = IF inflight[i].live THEN FALSE ELSE viIsLoading
    /\ storageOps' = {}
    /\ UNCHANGED peer
    /\ UNCHANGED <<durable, appVars, authVars, viDisabled, band, sessionId, kbVars>>

\* A verification handler after a 2xx answer with the given body:
\* setResult(data) when response.json() resolves, the catch block when it
\* rejects, and the finally block.
VerifyAnswered(i, body) ==
    /\ inflight[i].kind = "verify"
    /\ Resolve(i)
    /\ LET data == JSONparse(body)
       IN /\ result' = IF inflight[i].live /\ data.ok THEN data.v ELSE result
          /\ toast' = IF data.ok
                      THEN VerificationCompleteToast(inflight[i].modality)
                      ELSE VerificationFailedToast(inflight[i].modality)
          /\ lastOp' = IF data.ok THEN "verifyAnswered" ELSE "verifyParseFailed"
    /\ lastBody' = IF inflight[i].live THEN body ELSE NoBody
    /\ viIsLoading' = IF inflight[i].live THEN FALSE ELSE viIsLoading
    /\ storageOps' = {}
    /\ UNCHANGED peer
    /\ UNCHANGED <<durable, appVars, authVars, viDisabled, band, sessionId, kbVars>>

\* React renders the state updates made after an await.
Render ==
    /\ DashboardMounted
    /\ \/ viDisabled # RenderedDisabled(viIsLoading)
       \/ band # RenderedBand(result)
    /\ viDisabled' = RenderedDisabled(viIsLoading)
    /\ band' = RenderedBand(result)
    /\ storageOps' = {}
    /\ lastOp' = "render"
    /\ toast' = NoToast
    /\ lastBody' = NoBody
    /\ UNCHANGED peer
    /\ UNCHANGED <<durable, appVars, authVars, viIsLoading, result, sessionId,
                   kbVars, netVars>>

\* ---------------------------------------------------------- KnowledgeBase

KnowledgeBaseMounted == kbSessionId # NoSession

\* A KnowledgeBase view is mounted by a parent that holds the token: its
\* useState initializers run.
MountKnowledgeBase ==
    /\ DashboardMounted
    /\ ~KnowledgeBaseMounted
    /\ kbSessionId' \in SessionIds
    /\ kbIsLoading' = FALSE
    /\ refreshResults' = <<>>
    /\ storageOps' = {}
    /\ lastOp' = "mountKnowledgeBase"
    /\ toast' = NoToast
    /\ lastBody' = NoBody
    /\ UNCHANGED peer
    /\ UNCHANGED <<durable, appVars, authVars, viVars, netVars>>

\* The parent takes the KnowledgeBase view out of the tree: its state is
\* gone, its fetch goes on.
UnmountKnowledgeBase ==
    /\ KnowledgeBaseMounted
    /\ kbSessionId' = NoSession
    /\ kbIsLoading' = FALSE
    /\ refreshResults' = <<>>
    /\ inflight' = [i \in 1..Len(inflight) |->
                       IF inflight[i].kind = "refresh"
                       THEN Orphan(<<inflight[i]>>)[1] ELSE inflight[i]]
    /\ storageOps' = {}
    /\ lastOp' = "unmountKnowledgeBase"
    /\ toast' = NoToast
    /\ lastBody' = NoBody
    /\ UNCHANGED peer
    /\ UNCHANGED <<durable, appVars, authVars, viVars>>

\* handleRefreshKnowledgeBase up to its await.
handleRefreshKnowledgeBase ==
    /\ KnowledgeBaseMounted
    /\ ~kbIsLoading
    /\ Len(inflight) < MaxInFlight
    /\ Len(refreshResults) < MaxRefreshResults
    /\ kbIsLoading' = TRUE
    /\ inflight' = Append(inflight, Request("refresh", "topic", "application/json",
                                            kbSessionId, token))
    /\ storageOps' = {}
    /\ lastOp' = "handleRefreshKnowledgeBase"
    /\ toast' = NoToast
    /\ lastBody' = NoBody
    /\ UNCHANGED peer
    /\ UNCHANGED <<durable, appVars, authVars, viVars, kbSessionId, refreshResults>>

\* Its catch and finally blocks.
RefreshFailed(i) ==
    /\ inflight[i].kind = "refresh"
    /\ Resolve(i)
    /\ kbIsLoading' = IF inflight[i].live THEN FALSE ELSE kbIsLoading
    /\ storageOps' = {}
    /\ lastOp' = "refreshFailed"
    /\ toast' = UpdateFailedToast
    /\ lastBody' = NoBody
    /\ UNCHANGED peer
    /\ UNCHANGED <<durable, appVars, authVars, viVars, kbSessionId, refreshResults>>

\* setRefreshResults([data]): the list holds the latest answer alone.
RefreshAnsweredKeepsLatest(i, body) ==
    /\ inflight[i].kind = "refresh"
    /\ Resolve(i)
    /\ LET data == JSONparse(body)
       IN /\ refreshResults' = IF inflight[i].live /\ data.ok
                               THEN <<data.v>>
                               ELSE refreshResults
          /\ toast' = IF data.ok THEN KnowledgeBaseUpdatedToast
                      ELSE UpdateFailedToast
          /\ lastOp' = IF data.ok THEN "refreshAnswered" ELSE "refreshParseFailed"
    /\ lastBody' = IF inflight[i].live THEN body ELSE NoBody
    /\ kbIsLoading' = IF inflight[i].live THEN FALSE ELSE kbIsLoading
    /\ storageOps' = {}
    /\ UNCHANGED peer
    /\ UNCHANGED <<durable, appVars, authVars, viVars, kbSessionId>>

\* After a 2xx answer: setRefreshResults(prev => [data, ...prev]).
RefreshAnswered(i, body) ==
    /\ inflight[i].kind = "refresh"
    /\ Resolve(i)
    /\ LET data == JSONparse(body)
       IN /\ refreshResults' = IF inflight[i].live /\ data.ok
                               THEN <<data.v>> \o refreshResults
                               ELSE refreshResults
          /\ toast' = IF data.ok THEN KnowledgeBaseUpdatedToast
                      ELSE UpdateFailedToast
          /\ lastOp' = IF data.ok THEN "refreshAnswered" ELSE "refreshParseFailed"
    /\ lastBody' = IF inflight[i].live THEN body ELSE NoBody
    /\ kbIsLoading' = IF inflight[i].live THEN FALSE ELSE kbIsLoading
    /\ storageOps' = {}
    /\ UNCHANGED peer
    /\ UNCHANGED <<durable, appVars, authVars, viVars, kbSessionId>>

\* -------------------------------------------------------- a second client

\* The steps of the second client leave the first one's components alone.
PeerStep(op) ==
    /\ lastOp' = op
    /\ toast' = NoToast
    /\ lastBody' = NoBody
    /\ UNCHANGED <<appVars, authVars, viVars, kbVars, netVars>>

\* The second client is loaded: App's useEffect there.
PeerLoad ==
    /\ LET e == BootstrapEffect(durable[AuthKey])
       IN /\ peer' = Client(e.isAuthenticated, e.user, e.token, FALSE)
          /\ durable' = IF e.purge THEN [durable EXCEPT ![AuthKey] = NoItem]
                        ELSE durable
          /\ storageOps' = IF e.purge
                           THEN {StorageOp("App", "removeItem", AuthKey)} ELSE {}
    /\ PeerStep("peerLoad")

\* handleLogin and App.handleAuthSuccess in the second client.
PeerLogin(body) ==
    /\ ~peer.isLoading /\ ~peer.isAuthenticated
    /\ LET data == JSONparse(body)
       IN IF ~data.ok \/ data.v.t \in {"null", "undefined"}
          THEN /\ UNCHANGED <<durable, peer>>
               /\ storageOps' = {}
               /\ PeerStep("peerLoginFailed")
          ELSE LET authToken == GetProp(data.v, "access_token")
                   userData == GetProp(data.v, "user")
               IN /\ durable' = [durable EXCEPT
                                    ![AuthKey] = Item(SavedRecord(authToken, userData))]
                  /\ storageOps' = {StorageOp("App", "setItem", AuthKey)}
                  /\ peer' = Client(TRUE, userData, authToken, FALSE)
                  /\ PeerStep("peerAuthSuccess")

\* A logout of the second client that the first one hears of and follows, as
\* it would with a listener for the storage event.
PeerLogoutHeard ==
    /\ ~peer.isLoading /\ peer.isAuthenticated
    /\ durable' = LogoutStorage(durable)
    /\ storageOps' = LogoutOps
    /\ peer' = Client(FALSE, Null, Str(""), FALSE)
    /\ token' = Str("")
    /\ user' = Null
    /\ isAuthenticated' = FALSE
    /\ UNCHANGED appIsLoading
    /\ MountViews(FALSE)
    /\ inflight' = Orphan(inflight)
    /\ lastOp' = "peerLogout"
    /\ toast' = NoToast
    /\ lastBody' = NoBody
    /\ UNCHANGED authVars

\* Dashboard.handleLogout and App.handleLogout in the second client.
PeerLogout ==
    /\ ~peer.isLoading /\ peer.isAuthenticated
    /\ durable' = LogoutStorage(durable)
    /\ storageOps' = LogoutOps
    /\ peer' = Client(FALSE, Null, Str(""), FALSE)
    /\ PeerStep("peerLogout")

\* ------------------------------------------------------- the state machine

\* App as constructed, before its useEffect has run.
Init ==
    /\ durable \in {[k \in Keys |-> IF k = AuthKey THEN r ELSE NoItem] :
                       r \in InitialRecords}
    /\ storageOps = {}
    /\ isAuthenticated = FALSE
    /\ user = Null
    /\ token = Str("")
    /\ appIsLoading = TRUE
    /\ authIsLoading = FALSE
    /\ loginPending = FALSE
    /\ viIsLoading = FALSE
    /\ viDisabled = FALSE
    /\ band = NoBand
    /\ result = Null
    /\ sessionId = NoSession
    /\ kbIsLoading = FALSE
    /\ kbSessionId = NoSession
    /\ refreshResults = <<>>
    /\ inflight = <<>>
    /\ lastOp = "init"
    /\ toast = NoToast
    /\ lastBody = NoBody
    /\ peer = PeerLoading

Next ==
    \/ Bootstrap
    \/ Reload
    \/ LoginSubmit
    \/ LoginFailed
    \/ \E body \in LoginBodies, setItemThrows \in BOOLEAN :
          LoginAnswered(body, setItemThrows)
    \/ handleLogout
    \/ SubmitText
    \/ SubmitFile
    \/ SubmitUrl
    \/ \E i \in Pending : VerifyFailed(i)
    \/ \E i \in Pending, body \in VerifyBodies : VerifyAnswered(i, body)
    \/ Render

\* The application as App and Dashboard wire it; the submit events come from
\* the submit buttons alone.
Spec == Init /\ [][Next]_vars

\* The fetch of a request of the mounted VerificationInterface settles: it
\* rejects, or it is answered with some status and body.
LiveVerifySettles ==
    \E i \in Pending :
        /\ inflight[i].live
        /\ \/ VerifyFailed(i)
           \/ \E body \in VerifyBodies : VerifyAnswered(i, body)

\* The application where every fetch of the mounted view settles and React
\* gets to render the state updates it has queued.
SpecLive == Init /\ [][Next]_vars /\ WF_vars(LiveVerifySettles) /\ WF_vars(Render)

\* The application with a KnowledgeBase view next to VerificationInterface.
NextKB ==
    \/ Next
    \/ MountKnowledgeBase
    \/ handleRefreshKnowledgeBase
    \/ \E i \in Pending : RefreshFailed(i)
    \/ \E i \in Pending, body \in RefreshBodies : RefreshAnswered(i, body)

SpecKB == Init /\ [][NextKB]_vars

\* The Dashboard as the login of LoginFull has just mounted it.
InitView ==
    /\ LET data == JSONparse(LoginFull).v
       IN /\ token = GetProp(data, "access_token")
          /\ user = GetProp(data, "user")
    /\ durable = [k \in Keys |->
                     IF k = AuthKey THEN Item(SavedRecord(token, user)) ELSE NoItem]
    /\ storageOps = {StorageOp("App", "setItem", AuthKey)}
    /\ isAuthenticated = TRUE
    /\ appIsLoading = FALSE
    /\ authIsLoading = FALSE
    /\ loginPending = FALSE
    /\ viIsLoading = FALSE
    /\ viDisabled = FALSE
    /\ band = NoBand
    /\ result = Null
    /\ sessionId \in SessionIds
    /\ kbIsLoading = FALSE
    /\ kbSessionId = NoSession
    /\ refreshResults = <<>>
    /\ inflight = <<>>
    /\ lastOp = "handleAuthSuccess"
    /\ toast = LoginSuccessfulToast
    /\ lastBody = NoBody
    /\ peer = PeerLoading

\* The VerificationInterface of one login, its answers ranging over the labels
\* and the scores.
NextView ==
    \/ SubmitText
    \/ SubmitFile
    \/ SubmitUrl
    \/ \E i \in Pending : VerifyFailed(i)
    \/ \E i \in Pending,
          body \in AssessmentBodies \cup ScoreBodies \cup {VerifyJunk} :
          VerifyAnswered(i, body)
    \/ Render

SpecView == InitView /\ [][NextView]_vars

\* Two clients on one localStorage: the auth custody of the first, and the
\* second one's page load, login and logout.
NextPeers ==
    \/ Bootstrap
    \/ Reload
    \/ LoginSubmit
    \/ LoginFailed
    \/ \E body \in LoginBodies, setItemThrows \in BOOLEAN :
          LoginAnswered(body, setItemThrows)
    \/ handleLogout
    \/ PeerLoad
    \/ \E body \in PeerLoginBodies : PeerLogin(body)
    \/ PeerLogout

SpecPeers == Init /\ [][NextPeers]_vars

\* A KnowledgeBase view under the Dashboard of one login, mounted and
\* unmounted by its parent.
NextKBView ==
    \/ MountKnowledgeBase
    \/ UnmountKnowledgeBase
    \/ handleRefreshKnowledgeBase
    \/ \E i \in Pending : RefreshFailed(i)
    \/ \E i \in Pending, body \in RefreshBodies : RefreshAnswered(i, body)

SpecKBView == InitView /\ [][NextKBView]_vars

\* The handlers may also be called directly.
NextDirect == Next \/ InvokeHandler

SpecDirect == Init /\ [][NextDirect]_vars

\* ------------------------------------------------------------- properties

\* An AuthSession as section 3 of the specification defines it: token and
\* user both present and non-empty.
WellFormed(tok, usr) == Truthy(tok) /\ Truthy(usr)

\* A stored item that holds a well-formed AuthSession.
ValidRecord(item) ==
    /\ item.present
    /\ JSONparse(item.text).ok
    /\ WellFormed(GetProp(JSONparse(item.text).v, "token"),
                  GetProp(JSONparse(item.text).v, "user"))

\* A stored item that is present and holds no well-formed AuthSession.
Malformed(item) == item.present /\ ~ValidRecord(item)

Bootstrapped(op) == op \in {"bootstrap", "reload"}

\* The unresolved /verify requests of the mounted VerificationInterface.
LiveVerify ==
    {i \in 1..Len(inflight) : inflight[i].live /\ inflight[i].kind = "verify"}

\* This step sends a /verify request.
SendsVerify ==
    /\ Len(inflight') = Len(inflight) + 1
    /\ inflight'[Len(inflight')].kind = "verify"

\* C1: while a /verify request of the mounted VerificationInterface is
\* unresolved, a call of a verification handler of that instance sends no
\* further request.
C1_DoubleSubmitRejected == [][LiveVerify # {} => ~SendsVerify]_vars

\* C2: with submit events raised by the submit buttons alone, the mounted
\* VerificationInterface has at most one unresolved /verify request, over the
\* three modalities together. (An unmounted instance sends nothing, so each
\* instance keeps the bound it had while mounted.)
C2_AtMostOneInFlight == Cardinality(LiveVerify) <= 1

\* C2 witness: a handler has started, its request is unresolved and the
\* buttons show disabled, next to a request of an earlier instance.
C2_Witness ==
    /\ lastOp = "handleVerification"
    /\ Cardinality(LiveVerify) = 1
    /\ viDisabled
    /\ Len(inflight) = 2

\* C3: a page load that follows a state authenticated with a well-formed
\* session (one handleAuthSuccess saved) restores exactly that token and user
\* and marks the client authenticated.
C3_AuthRoundTrip ==
    [][(isAuthenticated /\ WellFormed(token, user) /\ lastOp' = "reload")
          => (token' = token /\ user' = user /\ isAuthenticated')]_vars

\* C3 witness: the session of a login answer, restored by a page load.
C3_Witness ==
    /\ lastOp = "reload"
    /\ isAuthenticated
    /\ token = Str("abc123")
    /\ user = Obj(<<Field("email", Str("a@b.com"))>>)

\* C4: a bootstrap that finds the auth record present but invalid yields the
\* unauthenticated state and leaves the record absent.
C4_InvalidRecordPurged ==
    [][(Bootstrapped(lastOp') /\ Malformed(durable[AuthKey]))
          => (~isAuthenticated' /\ ~durable'[AuthKey].present)]_vars

\* C5: a bootstrap that finds a malformed auth record yields the
\* unauthenticated state and puts no other record in its place; a bootstrap
\* that follows an unauthenticated bootstrap at once yields the
\* unauthenticated state again and leaves the storage as it is.
C5_CorruptIdempotent ==
    [][Bootstrapped(lastOp') =>
          /\ Malformed(durable[AuthKey]) =>
                /\ ~isAuthenticated'
                /\ durable'[AuthKey] \in {durable[AuthKey], NoItem}
          /\ (Bootstrapped(lastOp) /\ ~isAuthenticated) =>
                /\ ~isAuthenticated'
                /\ durable' = durable]_vars

\* C5 witness: a second bootstrap over a record that only an earlier run can
\* have left and that no login has replaced.
C5_Witness ==
    /\ lastOp = "reload"
    /\ ~isAuthenticated
    /\ durable[AuthKey] = Item(StoredNoUser)

\* C6: the session held in memory is complete whenever the client is
\* authenticated, and the record handleAuthSuccess stores is complete.
C6_SessionCompleteOrAbsent ==
    /\ isAuthenticated => WellFormed(token, user)
    /\ StorageOp("App", "setItem", AuthKey) \in storageOps
          => ValidRecord(durable[AuthKey])

\* C7: after logout the auth record is absent, token is empty, user is null
\* and the client is not authenticated; a page load that follows yields the
\* unauthenticated state.
C7_LogoutClears ==
    [][/\ lastOp' = "handleLogout" =>
             /\ ~durable'[AuthKey].present
             /\ token' = Str("")
             /\ user' = Null
             /\ ~isAuthenticated'
       /\ (lastOp = "handleLogout" /\ lastOp' = "reload") => ~isAuthenticated']_vars

\* C7 witness: logged out while a request of the session was unresolved.
C7_Witness ==
    /\ lastOp = "handleLogout"
    /\ ~isAuthenticated
    /\ Len(inflight) > 0

\* C8: every localStorage mutation is made by the auth store (App) on the
\* auth-record key.
C8_OnlyAuthKeyTouched ==
    \A o \in storageOps : o.key = AuthKey /\ o.by = "App"

\* C9: an unresolved /verify request and an unresolved refresh request of
\* the mounted views carry the same session_id.
C9_SharedSessionId ==
    \A i, j \in 1..Len(inflight) :
        (/\ inflight[i].live /\ inflight[j].live
         /\ inflight[i].kind = "verify" /\ inflight[j].kind = "refresh")
            => inflight[i].session_id = inflight[j].session_id

\* C10: the /verify requests sent since the page was loaded all carry one
\* session_id, whatever logout and login lay between them, and no
\* localStorage item holds a session identifier.
C10_SessionIdStable ==
    /\ \A i, j \in 1..Len(inflight) :
          (inflight[i].kind = "verify" /\ inflight[j].kind = "verify")
             => inflight[i].session_id = inflight[j].session_id
    /\ \A k \in Keys : \A n \in 1..Len(durable[k].text) :
          durable[k].text[n].s \notin SessionIds

\* C11: a /verify request of any of the three modalities carries, when it is
\* sent, the sessionId of the sending VerificationInterface as session_id and
\* the token the client holds as the credentials of a Bearer Authorization
\* header (the token as `${token}` renders it, the token itself when it is a
\* string).
C11_RequestCarriesSessionAndToken ==
    [][SendsVerify =>
          LET r == inflight'[Len(inflight')]
          IN /\ r.modality \in {"text", "file", "url"}
             /\ r.session_id = sessionId
             /\ r.authorization.scheme = "Bearer"
             /\ r.authorization.credentials = ToStringJS(token)
             /\ token.t = "string" => r.authorization.credentials = token.s]_vars

\* C11 witness: the file handler has sent its request with the session id of
\* the view and the token of the login.
C11_Witness ==
    /\ lastOp = "handleVerification"
    /\ token = Str("abc123")
    /\ \E i \in 1..Len(inflight) :
          /\ inflight[i].live
          /\ inflight[i].modality = "file"
          /\ inflight[i].session_id = sessionId
          /\ inflight[i].authorization.credentials = "abc123"

\* C12: a /verify request that fails (fetch rejects, or the status is not 2xx)
\* leaves the result the VerificationInterface holds as it was.
C12_FailureKeepsResult == [][lastOp' = "verifyFailed" => result' = result]_vars

\* C12 witness: the request of the mounted view has just failed (isLoading is
\* reset, the buttons still show disabled) and the earlier result is held.
C12_Witness ==
    /\ lastOp = "verifyFailed"
    /\ DashboardMounted
    /\ viDisabled /\ ~viIsLoading
    /\ result # Null

\* C13: a handler call sends exactly one request and leaves the earlier ones
\* alone; the step that handles the outcome (failure, unparsable body or
\* success) resolves one request and sends none; a failure ends in the catch
\* block (destructive toast, isLoading reset); no other step sends a /verify
\* request.
C13_OneRequestPerSubmission ==
    [][/\ lastOp' = "handleVerification" =>
             /\ Len(inflight') = Len(inflight) + 1
             /\ SubSeq(inflight', 1, Len(inflight)) = inflight
       /\ lastOp' \in {"verifyFailed", "verifyParseFailed", "verifyAnswered"} =>
             \E i \in Pending : Resolve(i)
       /\ lastOp' = "verifyFailed" =>
             /\ toast'.title = "Verification failed"
             /\ toast'.variant = "destructive"
             /\ LiveVerify' = {} => ~viIsLoading'
       /\ SendsVerify => lastOp' = "handleVerification"]_vars

\* C13 witness: the url request has failed; nothing is in flight, the failure
\* toast is up and the view is idle.
C13_Witness ==
    /\ lastOp = "verifyFailed"
    /\ DashboardMounted
    /\ inflight = <<>>
    /\ toast = VerificationFailedToast("url")
    /\ ~viIsLoading

\* What the user and the view see of a handler whose request i failed in
\* transport: the toast of the catch block, the result and isLoading.
TransportFailureOutcome(i) ==
    <<VerificationFailedToast(inflight[i].modality), result,
      IF inflight[i].live THEN FALSE ELSE viIsLoading>>

\* C14: when a 2xx answer carries a body that does not parse, what the
\* handler leaves behind (toast, result, isLoading) differs from what it
\* leaves behind when the same request fails in transport.
C14_ParseFailureDistinct ==
    [][lastOp' = "verifyParseFailed" =>
          \A i \in Pending :
              Resolve(i) =>
                 <<toast', result', viIsLoading'>> # TransportFailureOutcome(i)]_vars

\* C15: whatever string the answer gives as credibility_assessment, the band
\* the result card shows has the colour the table gives: risk-high for
\* HIGH_RISK, risk-moderate for MODERATE_RISK, risk-low for LOW_RISK,
\* risk-unverifiable for UNVERIFIABLE and LIMITED_VERIFICATION, the fallback
\* muted for every other string; colour and icon are never absent.
C15_ClassifierAgreesWithTable ==
    band # NoBand =>
       LET table == [HIGH_RISK |-> "risk-high",
                     MODERATE_RISK |-> "risk-moderate",
                     LOW_RISK |-> "risk-low",
                     UNVERIFIABLE |-> "risk-unverifiable",
                     LIMITED_VERIFICATION |-> "risk-unverifiable"]
       IN /\ band.assessment.t = "string"
          /\ band.color = IF band.assessment.s \in DOMAIN table
                          THEN table[band.assessment.s] ELSE "muted"
          /\ band.color # ""
          /\ band.icon \in {"XCircle", "AlertTriangle", "CheckCircle", "Clock"}

\* C15 witness: the card shows the band of a LIMITED_VERIFICATION answer.
C15_Witness ==
    /\ lastOp = "render"
    /\ band.assessment = Str("LIMITED_VERIFICATION")
    /\ band.color = "risk-unverifiable"

\* This step handles the outcome of a request whose VerificationInterface has
\* been unmounted.
ResolvesOrphan ==
    /\ lastOp' \in {"verifyFailed", "verifyParseFailed", "verifyAnswered"}
    /\ Len(inflight') = Len(inflight) - 1
    /\ Cardinality(LiveVerify') = Cardinality(LiveVerify)

\* C16: the outcome of a /verify request whose view was torn down by logout
\* changes no state of a VerificationInterface: not of the one that sent it,
\* which is gone, and not of one mounted since.
C16_LateResponseDiscarded ==
    [][ResolvesOrphan => (result' = result /\ viIsLoading' = viIsLoading
                            /\ band' = band /\ sessionId' = sessionId)]_vars

\* C16 witness: a 2xx answer with a parsable body has been handled while a
\* VerificationInterface mounted by a later login is idle and holds no
\* result: the answer belonged to the view of the session before.
C16_Witness ==
    /\ lastOp = "verifyAnswered"
    /\ toast.title = "Verification complete"
    /\ DashboardMounted
    /\ result = Null
    /\ inflight = <<>>

C18_LastWriteWins ==
    [][/\ (lastOp' = "handleAuthSuccess" /\ storageOps' # {}) =>
             durable'[AuthKey] = Item(SavedRecord(token', user'))
       /\ lastOp' = "peerAuthSuccess" =>
             durable'[AuthKey] = Item(SavedRecord(peer'.token, peer'.user))
       /\ (\E o \in storageOps' : o.op = "removeItem" /\ o.key = AuthKey) =>
             durable'[AuthKey] = NoItem
       /\ storageOps' = {} => durable' = durable
       /\ lastOp' \in {"peerLoad", "peerLoginFailed", "peerAuthSuccess", "peerLogout"} =>
             appVars' = appVars
       /\ lastOp' \in {"bootstrap", "reload", "handleLogin", "loginFailed",
                        "handleAuthSuccess", "handleLogout"} =>
             peer' = peer]_vars

\* C18 witness: both clients are logged in; the second one logged in last, so
\* the item is its record, while the first one still holds its own session.
C18_Witness ==
    /\ lastOp = "peerAuthSuccess"
    /\ isAuthenticated /\ token = Str("abc123")
    /\ peer.isAuthenticated /\ peer.token = Str("xyz789")
    /\ durable[AuthKey] = Item(SavedRecord(peer.token, peer.user))

\* This step leaves the mounted KnowledgeBase view mounted.
KnowledgeBaseStays == KnowledgeBaseMounted /\ kbSessionId' = kbSessionId

\* This step has applied the 2xx answer of a refresh request of the mounted
\* KnowledgeBase view, whose body parsed.
RefreshSucceeded == lastOp' = "refreshAnswered" /\ lastBody' # NoBody

\* C19 as claimed: while a KnowledgeBase view stays mounted, a successful
\* refresh puts its answer after all entries of refreshResults, and no other
\* step changes refreshResults.
C19_AppendOnlyLog ==
    [][KnowledgeBaseStays =>
          refreshResults' = IF RefreshSucceeded
                            THEN Append(refreshResults, JSONparse(lastBody').v)
                            ELSE refreshResults]_vars

\* C19 amended: while a KnowledgeBase view stays mounted, a successful refresh
\* puts its answer before all entries of refreshResults (newest first), the
\* earlier entries following unchanged and in their order, and no other step,
\* a failed refresh included, changes refreshResults.
C19_NewestFirstLog ==
    [][KnowledgeBaseStays =>
          IF RefreshSucceeded
          THEN /\ Len(refreshResults') = Len(refreshResults) + 1
               /\ refreshResults'[1] = JSONparse(lastBody').v
               /\ \A n \in 1..Len(refreshResults) :
                     refreshResults'[n + 1] = refreshResults[n]
          ELSE refreshResults' = refreshResults]_vars

\* C19 witness: the answer for "health" has been put before the earlier one
\* for "climate".
C19_Witness ==
    /\ lastOp = "refreshAnswered"
    /\ lastBody = RefreshMore
    /\ refreshResults = <<JSONparse(RefreshMore).v, JSONparse(RefreshDone).v>>

\* C20: the VerificationInterface holds one result: the whole parsed body of
\* the latest 2xx answer it applied, and nothing of the result before it;
\* none from its mount until the first such answer; no other step, a failed
\* request and an answer for an unmounted view included, changes it.
C20_ResultIsLatestPayload ==
    [][IF lastOp' = "verifyAnswered" /\ lastBody' # NoBody
       THEN result' = JSONparse(lastBody').v
       ELSE IF lastOp' \in {"bootstrap", "reload", "handleAuthSuccess",
                            "handleLogout"}
            THEN result' = Null
            ELSE result' = result]_vars

\* C20 witness: the HIGH_RISK answer has replaced the LOW_RISK result the
\* card still shows; the summary only the LOW_RISK answer had is gone.
C20_Witness ==
    /\ lastOp = "verifyAnswered"
    /\ lastBody = VerifyHigh
    /\ band.assessment = Str("LOW_RISK")
    /\ result = JSONparse(VerifyHigh).v
    /\ GetProp(result, "summary") = Undefined

\* C21: the result a VerificationInterface holds has a classification_score
\* within [0,1]: an answer whose score lies outside is not taken as the
\* result.
C21_ScoreWithinUnitInterval ==
    Truthy(result) =>
       LET score == GetProp(result, "classification_score")
       IN /\ score.t = "number"
          /\ TimesHundred(score.s) >= 0
          /\ TimesHundred(score.s) <= 100

\* C22: when the fetch of every submission settles (rejected, non-2xx, 2xx
\* with or without a parsable body), isLoading of the VerificationInterface
\* is false again some time after it was set, and the submit buttons are
\* enabled again some time after they were disabled.
C22_LoadingEventuallyFalse ==
    /\ viIsLoading ~> ~viIsLoading
    /\ viDisabled ~> ~viDisabled

\* C22 witness: a 2xx answer with an unparsable body has been handled;
\* isLoading is false again, the render that enables the buttons is due.
C22_Witness ==
    /\ lastOp = "verifyParseFailed"
    /\ DashboardMounted
    /\ inflight = <<>>
    /\ ~viIsLoading
    /\ viDisabled

\* C23: a login whose localStorage.setItem throws leaves token, user and
\* isAuthenticated of App as they were, and the 'auth' item too; so after
\* every login step App is authenticated only with the record of its token
\* and user stored.
C23_FailedWriteKeepsMemory ==
    [][lastOp' = "handleAuthSuccess" =>
          /\ storageOps' = {} =>
                /\ token' = token /\ user' = user
                /\ isAuthenticated' = isAuthenticated
                /\ durable' = durable
          /\ isAuthenticated' =>
                durable'[AuthKey] = Item(SavedRecord(token', user'))]_vars

\* C23 witness: the login was answered, setItem threw: nothing is stored and
\* App is not authenticated, Landing still mounted.
C23_Witness ==
    /\ lastOp = "handleAuthSuccess"
    /\ storageOps = {}
    /\ LandingMounted
    /\ token = Str("") /\ user = Null
    /\ durable[AuthKey] = NoItem

====
